---- MODULE Spec2Model ----
(***************************************************************************)
(* Model of static/script.js: the report form's submit handler (one async  *)
(* function, suspended at `await fetch(...)` and at `await response.json()`)*)
(* and the copy button's click handler (a clipboard promise and a timer).  *)
(*                                                                         *)
(* Each action is one run-to-completion step of the event loop: an event   *)
(* handler up to its first await, or the continuation of a settled promise *)
(* up to the next await or the end of the handler.  The variables hold the *)
(* DOM properties the script reads and writes, the requests and clipboard  *)
(* writes that are pending, and the pending timers.                        *)
(***************************************************************************)
EXTENDS Integers, Sequences, FiniteSets, TLC

\* ------------------------------------------------------------------ bounds
MaxSubmits == 2
MaxCopies == 2

\* --------------------------------------------------------------- constants
CopyDelay == 2000
HalfDelay == CopyDelay \div 2

Endpoint == "/generate_report"
FailedPrefix == "Failed to generate report: "
HttpErrorPrefix == "HTTP error! Status: "
UnexpectedMsg == "Received an unexpected response from the server."
CopiedLabel == "Copied!"
OriginalLabel == "Copy Report to Clipboard"
AlertText == "Failed to copy report. Please copy manually."

\* ------------------------------------------------------------------ inputs
\* Values <<findings, template>> the two fields can hold (empty strings permitted).
FieldValues == {<<"", "T">>, <<"F", "">>}

\* HTTP statuses a response can carry; response.ok is status in 200..299.
Statuses == {200, 400}
ResponseOk(status) == status >= 200 /\ status <= 299

\* A JSON field is absent (<<>>), present with a string value s (<<s>>), or
\* present with an object value (<<t, "object">>, t the text it converts to).
\* The empty array [] is an object, and converts to the empty text.
EmptyArray == <<"", "object">>
ReportFields == {<<>>, <<"">>, <<"R">>, EmptyArray}
ErrorFields == {<<>>, <<"">>, <<"E">>}

\* A response body: text that does not parse as JSON, or a JSON object.
NotJson == [json |-> FALSE, report |-> <<>>, error |-> <<>>]
Bodies ==
    {NotJson} \cup
    {[json |-> TRUE, report |-> r, error |-> e] : r \in ReportFields, e \in ErrorFields}

\* error.message of the exceptions the runtime itself raises; the wording
\* depends on the engine, so each is a choice.
NetworkErrors == {"Failed to fetch"}
SyntaxErrors == {"Unexpected end of JSON input"}

VARIABLES
    resultDisplay,   \* resultArea.style.display
    errorDisplay,    \* errorArea.style.display
    loadingDisplay,  \* loadingDiv.style.display
    disabled,        \* generateButton.disabled
    reportText,      \* reportOutput.textContent
    errorText,       \* errorMessage.textContent
    copyLabel,       \* copyButton.textContent
    findings,        \* document.getElementById('findings').value
    template,        \* document.getElementById('template').value
    reqs,            \* suspended runs of the submit handler, by submission number
    clipWrites,      \* texts of the clipboard writes still pending, oldest first
    timers,          \* time left of each pending restore timer, oldest first
    nSubmits,        \* submit events handled so far
    nPosts,          \* calls of fetch so far
    nDone,           \* runs of the submit handler that have ended
    nCopies,         \* copy clicks handled so far
    lastKind,        \* what the latest ended run rendered: "result" or "error"
    event            \* what the step just taken was, with its inputs and outputs

domVars == <<resultDisplay, errorDisplay, loadingDisplay, disabled, reportText, errorText>>
fieldVars == <<findings, template>>
submitVars == <<reqs, nSubmits, nPosts, nDone, lastKind>>
copyVars == <<copyLabel, clipWrites, timers, nCopies>>
vars == <<domVars, fieldVars, submitVars, copyVars, event>>

\* ------------------------------------------------------------ JS semantics
\* Truthiness of a field read off a parsed object: undefined and "" are falsy,
\* every object is truthy.
Truthy(field) == field # <<>> /\ (Len(field) = 2 \/ field[1] # "")

\* a || b, for a field a and a string b, as the text it is rendered to.
OrElse(field, default) == IF Truthy(field) THEN field[1] ELSE default

\* JSON.stringify({ findings, template }): the JSON object the text denotes.
JSONStringify(f, t) == [findings |-> f, template |-> t]

Max(a, b) == IF a >= b THEN a ELSE b

Without(f, i) == [j \in DOMAIN f \ {i} |-> f[j]]

RemoveAt(s, j) == [k \in 1..(Len(s) - 1) |-> IF k < j THEN s[k] ELSE s[k + 1]]

\* A step that neither starts nor ends a run of a handler.
NoEvent == [type |-> "none"]

\* -------------------------------------------------------- the page at load
Init ==
    /\ resultDisplay = "none"
    /\ errorDisplay = "none"
    /\ loadingDisplay = "none"
    /\ disabled = FALSE
    /\ reportText = ""
    /\ errorText = ""
    /\ copyLabel = OriginalLabel
    /\ \E v \in FieldValues : findings = v[1] /\ template = v[2]
    /\ reqs = <<>>
    /\ clipWrites = <<>>
    /\ timers = <<>>
    /\ nSubmits = 0
    /\ nPosts = 0
    /\ nDone = 0
    /\ nCopies = 0
    /\ lastKind = "none"
    /\ event = NoEvent

\* The user edits the two fields.
Input(f, t) ==
    /\ <<f, t>> \in FieldValues
    /\ <<f, t>> # <<findings, template>>
    /\ findings' = f
    /\ template' = t
    /\ event' = NoEvent
    /\ UNCHANGED <<domVars, submitVars, copyVars>>

\* ----------------------------------------------------------- submit handler
\* ResetDisplay without line 20: the previous error text is not cleared.
ResetDisplayKeepsErrorText ==
    /\ resultDisplay' = "none"
    /\ errorDisplay' = "none"
    /\ loadingDisplay' = "block"
    /\ disabled' = TRUE
    /\ reportText' = ""
    /\ errorText' = errorText

\* Lines 15-20: hide previous results/errors, show loading, disable, clear.
ResetDisplay ==
    /\ resultDisplay' = "none"
    /\ errorDisplay' = "none"
    /\ loadingDisplay' = "block"
    /\ disabled' = TRUE
    /\ reportText' = ""
    /\ errorText' = ""

\* Fetch with a body that leaves out the template.
FetchFindingsOnly(f, t) ==
    <<[url |-> Endpoint, method |-> "POST", contentType |-> "application/json",
       body |-> [findings |-> f]]>>

\* Lines 26-32: the call of fetch, as the list of requests it puts on the wire.
Fetch(f, t) ==
    <<[url |-> Endpoint, method |-> "POST", contentType |-> "application/json",
       body |-> JSONStringify(f, t)]>>

\* Lines 49-50: the success rendering.
ShowReport(report) ==
    /\ reportText' = report
    /\ resultDisplay' = "block"
    /\ UNCHANGED <<errorText, errorDisplay>>

\* Lines 57-60: the catch block, for an error whose message is msg.
Catch(msg) ==
    /\ errorText' = FailedPrefix \o msg
    /\ errorDisplay' = "block"
    /\ UNCHANGED <<reportText, resultDisplay>>

\* Finally without line 64: the submit control stays disabled.
FinallyLeavesDisabled ==
    /\ loadingDisplay' = "none"
    /\ disabled' = disabled

\* Finally without line 63: the loading indicator stays visible.
FinallyKeepsLoading ==
    /\ loadingDisplay' = loadingDisplay
    /\ disabled' = FALSE

\* Lines 61-65: the finally block.
Finally ==
    /\ loadingDisplay' = "none"
    /\ disabled' = FALSE

\* NotOkMessage whose default leaves out the status code.
NotOkMessageNoStatus(status, body) ==
    LET errorMsg == HttpErrorPrefix
    IN IF body.json THEN OrElse(body.error, errorMsg) ELSE errorMsg

\* Lines 36-43: the message thrown for a non-2xx response.
NotOkMessage(status, body) ==
    LET errorMsg == HttpErrorPrefix \o ToString(status)
    IN IF body.json THEN OrElse(body.error, errorMsg) ELSE errorMsg

\* Lines 46-55: a 2xx response, once response.json() has settled; syntaxErr is
\* the message of the SyntaxError a body that is not JSON makes it reject with.
OkBranch(body, syntaxErr) ==
    IF ~body.json THEN Catch(syntaxErr)
    ELSE IF Truthy(body.report) THEN ShowReport(body.report[1])
    ELSE IF Truthy(body.error) THEN Catch(body.error[1])
    ELSE Catch(UnexpectedMsg)

\* What a run that handled `body` under `status` rendered (status 0: no response).
Rendered(status, body) ==
    IF ResponseOk(status) /\ body.json /\ Truthy(body.report) THEN "result" ELSE "error"

\* Bookkeeping when run i of the handler ends: it handled `body` under `status`,
\* or the exception with message `err` that the runtime raised.
EndRun(i, status, body, err) ==
    /\ reqs' = Without(reqs, i)
    /\ nDone' = nDone + 1
    /\ lastKind' = Rendered(status, body)
    /\ event' = [type |-> "end", id |-> i, status |-> status, body |-> body,
                 err |-> err, solo |-> reqs[i].solo, prevKind |-> lastKind,
                 posts |-> <<>>]
    /\ UNCHANGED <<nSubmits, nPosts>>

\* Lines 11-32: a submit event; the handler runs up to `await fetch(...)`.
\* The handler tests nothing before it resets the page and calls fetch.
Submit ==
    /\ nSubmits < MaxSubmits
    /\ nSubmits' = nSubmits + 1
    /\ ResetDisplay
    /\ LET posts == Fetch(findings, template)
       IN /\ nPosts' = nPosts + Len(posts)
          /\ event' = [type |-> "submit", posts |-> posts]
    /\ reqs' = ((nSubmits + 1) :> [pc |-> "fetch", status |-> 0, solo |-> (DOMAIN reqs = {})])
                @@ [j \in DOMAIN reqs |-> [reqs[j] EXCEPT !.solo = FALSE]]
    /\ UNCHANGED <<fieldVars, nDone, lastKind, copyVars>>

\* Line 26 resumes with a response; lines 34-38 or 46 run up to
\* `await response.json()`.
FetchResolve(i, status) ==
    /\ i \in DOMAIN reqs
    /\ reqs[i].pc = "fetch"
    /\ reqs' = [reqs EXCEPT ![i].pc = "json", ![i].status = status]
    /\ event' = NoEvent
    /\ UNCHANGED <<domVars, fieldVars, nSubmits, nPosts, nDone, lastKind, copyVars>>

\* Line 26 resumes with a rejection (no response): catch, then finally.
FetchReject(i, msg) ==
    /\ i \in DOMAIN reqs
    /\ reqs[i].pc = "fetch"
    /\ Catch(msg)
    /\ Finally
    /\ EndRun(i, 0, NotJson, msg)
    /\ UNCHANGED <<fieldVars, copyVars>>

\* response.json() settles with the parsed body, and the handler runs to its end.
JsonResolve(i, body) ==
    /\ i \in DOMAIN reqs
    /\ reqs[i].pc = "json"
    /\ body.json
    /\ IF ~ResponseOk(reqs[i].status)
         THEN Catch(NotOkMessage(reqs[i].status, body))
         ELSE OkBranch(body, "")
    /\ Finally
    /\ EndRun(i, reqs[i].status, body, "")
    /\ UNCHANGED <<fieldVars, copyVars>>

\* response.json() rejects with a SyntaxError (the body is not JSON), and the
\* handler runs to its end.
JsonReject(i, syntaxErr) ==
    /\ i \in DOMAIN reqs
    /\ reqs[i].pc = "json"
    /\ IF ~ResponseOk(reqs[i].status)
         THEN Catch(NotOkMessage(reqs[i].status, NotJson))
         ELSE OkBranch(NotJson, syntaxErr)
    /\ Finally
    /\ EndRun(i, reqs[i].status, NotJson, syntaxErr)
    /\ UNCHANGED <<fieldVars, copyVars>>

\* ------------------------------------------------------------- copy handler
\* Lines 69-70: a click on the copy button starts a clipboard write.
CopyClick ==
    /\ nCopies < MaxCopies
    /\ nCopies' = nCopies + 1
    /\ clipWrites' = Append(clipWrites, reportText)
    /\ event' = [type |-> "copy", text |-> reportText]
    /\ UNCHANGED <<domVars, fieldVars, submitVars, copyLabel, timers>>

\* WriteResolve with a delay other than 2000 passed to setTimeout.
WriteResolveShortDelay(j) ==
    /\ j \in 1..Len(clipWrites)
    /\ clipWrites' = RemoveAt(clipWrites, j)
    /\ copyLabel' = CopiedLabel
    /\ timers' = Append(timers, HalfDelay)
    /\ event' = [type |-> "copied", text |-> clipWrites[j], timersBefore |-> timers]
    /\ UNCHANGED <<domVars, fieldVars, submitVars, nCopies>>

\* WriteResolve that cancels the pending restore timers before it sets its own.
WriteResolveResetsTimer(j) ==
    /\ j \in 1..Len(clipWrites)
    /\ clipWrites' = RemoveAt(clipWrites, j)
    /\ copyLabel' = CopiedLabel
    /\ timers' = <<CopyDelay>>
    /\ event' = [type |-> "copied", text |-> clipWrites[j], timersBefore |-> timers]
    /\ UNCHANGED <<domVars, fieldVars, submitVars, nCopies>>

\* Lines 71-75: the write succeeded.
WriteResolve(j) ==
    /\ j \in 1..Len(clipWrites)
    /\ clipWrites' = RemoveAt(clipWrites, j)
    /\ copyLabel' = CopiedLabel
    /\ timers' = Append(timers, CopyDelay)
    /\ event' = [type |-> "copied", text |-> clipWrites[j], timersBefore |-> timers]
    /\ UNCHANGED <<domVars, fieldVars, submitVars, nCopies>>

\* WriteReject that also puts the original label back.
WriteRejectRestoresLabel(j) ==
    /\ j \in 1..Len(clipWrites)
    /\ clipWrites' = RemoveAt(clipWrites, j)
    /\ copyLabel' = OriginalLabel
    /\ event' = [type |-> "alert", text |-> AlertText]
    /\ UNCHANGED <<domVars, fieldVars, submitVars, timers, nCopies>>

\* Lines 76-80: the write failed.
WriteReject(j) ==
    /\ j \in 1..Len(clipWrites)
    /\ clipWrites' = RemoveAt(clipWrites, j)
    /\ event' = [type |-> "alert", text |-> AlertText]
    /\ UNCHANGED <<domVars, fieldVars, submitVars, copyLabel, timers, nCopies>>

\* Time passes while a timer is pending.  setTimeout promises no less than its
\* delay and no more: a timer whose time is up may wait for the event loop, and
\* its remaining time is then negative (kept at -HalfDelay: late by that or more).
Tick ==
    /\ \E k \in 1..Len(timers) : timers[k] > -HalfDelay
    /\ timers' = [k \in 1..Len(timers) |-> Max(-HalfDelay, timers[k] - HalfDelay)]
    /\ event' = NoEvent
    /\ UNCHANGED <<domVars, fieldVars, submitVars, copyLabel, clipWrites, nCopies>>

\* TimerFire with a callback that does not put the original label back.
TimerFireKeepsLabel ==
    /\ timers # <<>>
    /\ Head(timers) <= 0
    /\ copyLabel' = copyLabel
    /\ timers' = Tail(timers)
    /\ event' = [type |-> "restore", left |-> Head(timers)]
    /\ UNCHANGED <<domVars, fieldVars, submitVars, clipWrites, nCopies>>

\* Line 74: the callback of the oldest timer, once its delay has elapsed.
TimerFire ==
    /\ timers # <<>>
    /\ Head(timers) <= 0
    /\ copyLabel' = OriginalLabel
    /\ timers' = Tail(timers)
    /\ event' = [type |-> "restore", left |-> Head(timers)]
    /\ UNCHANGED <<domVars, fieldVars, submitVars, clipWrites, nCopies>>

Next ==
    \/ \E v \in FieldValues : Input(v[1], v[2])
    \/ Submit
    \/ \E i \in 1..MaxSubmits, s \in Statuses : FetchResolve(i, s)
    \/ \E i \in 1..MaxSubmits, m \in NetworkErrors : FetchReject(i, m)
    \/ \E i \in 1..MaxSubmits, b \in Bodies : JsonResolve(i, b)
    \/ \E i \in 1..MaxSubmits, m \in SyntaxErrors : JsonReject(i, m)
    \/ CopyClick
    \/ \E j \in 1..MaxCopies : WriteResolve(j)
    \/ \E j \in 1..MaxCopies : WriteReject(j)
    \/ Tick
    \/ TimerFire

Spec == Init /\ [][Next]_vars

\* response.json() of run i settles, one way or the other.
JsonSettles(i) ==
    \/ \E b \in Bodies : JsonResolve(i, b)
    \/ \E m \in SyntaxErrors : JsonReject(i, m)

\* Once a response has arrived, reading its body ends (parsed or not), and the
\* event loop then resumes the handler: the step stays enabled until taken.
FairSpec == Spec /\ \A i \in 1..MaxSubmits : WF_vars(JsonSettles(i))

\* The steps of the submit handler and of the fields it reads.  The copy
\* handler's steps (CopyClick, WriteResolve, WriteReject, Tick, TimerFire)
\* leave every variable these steps read or write unchanged, except `event`.
NextSubmit ==
    \/ \E v \in FieldValues : Input(v[1], v[2])
    \/ Submit
    \/ \E i \in 1..MaxSubmits, s \in Statuses : FetchResolve(i, s)
    \/ \E i \in 1..MaxSubmits, m \in NetworkErrors : FetchReject(i, m)
    \/ \E i \in 1..MaxSubmits, b \in Bodies : JsonResolve(i, b)
    \/ \E i \in 1..MaxSubmits, m \in SyntaxErrors : JsonReject(i, m)

\* The submit handler on its own, with the fairness of FairSpec.
SubmitFairSpec ==
    Init /\ [][NextSubmit]_vars /\ \A i \in 1..MaxSubmits : WF_vars(JsonSettles(i))

\* The steps of the copy handler, of its clipboard writes and of its timers.
\* The submit handler's steps change none of the variables these steps write.
NextCopy ==
    \/ CopyClick
    \/ \E j \in 1..MaxCopies : WriteResolve(j)
    \/ \E j \in 1..MaxCopies : WriteReject(j)
    \/ Tick
    \/ TimerFire

\* Time passes, and the event loop runs the callback of a timer that is due.
TimerFairness == WF_vars(Tick) /\ WF_vars(TimerFire)

\* The copy handler on its own, and the whole page, under that fairness.
CopyFairSpec == Init /\ [][NextCopy]_vars /\ TimerFairness

TimerFairSpec == Spec /\ TimerFairness

\* ------------------------------------------------------------------ claims
Visible(display) == display = "block"

InFlight == DOMAIN reqs

\* The step just taken ended a run of the submit handler.
Ended == event.type = "end"

\* ... one that handled a response (status 0 stands for a rejected fetch).
EndedWithResponse == Ended /\ event.status # 0

\* C1: at every point where control is back in the event loop, at most one of
\* the loading indicator, the result area and the error area is visible.
C1_AtMostOneVisible ==
    Cardinality({d \in {"loading", "result", "error"} :
        \/ d = "loading" /\ Visible(loadingDisplay)
        \/ d = "result" /\ Visible(resultDisplay)
        \/ d = "error" /\ Visible(errorDisplay)}) <= 1

\* C2: whenever a POST issued by the submit handler has not resolved yet, the
\* submit control is disabled.
C2_DisabledWhileInFlight == InFlight # {} => disabled

\* C3: every run of the handler that ends leaves the loading indicator hidden
\* and the submit control enabled, on the success path and on every failure
\* path; and every run whose response has arrived does end so.
C3_Finalization ==
    /\ [](Ended => ~Visible(loadingDisplay) /\ ~disabled)
    /\ \A i \in 1..MaxSubmits :
          (i \in InFlight /\ reqs[i].pc = "json")
              ~> (Ended /\ event.id = i /\ ~Visible(loadingDisplay) /\ ~disabled)

\* A run has ended on a failure path (a non-2xx response whose body is not
\* JSON), after an earlier run ended on the success path.
C3_Witness ==
    /\ Ended
    /\ event.status = 400
    /\ ~event.body.json
    /\ event.prevKind = "result"
    /\ ~Visible(loadingDisplay)
    /\ ~disabled

\* C4: at most one request to /generate_report is in flight at any time.
C4_AtMostOneInFlight == Cardinality(InFlight) <= 1

\* C5: after a run that handled a 2xx response whose JSON body has a `report`
\* field X (any string, the empty one included, with or without an `error`
\* field), the result area is visible, the report output shows exactly X and
\* the error area is hidden.
C5_ReportShown ==
    (EndedWithResponse /\ ResponseOk(event.status) /\ event.body.json
        /\ event.body.report # <<>>)
    => /\ Visible(resultDisplay)
       /\ reportText = event.body.report[1]
       /\ ~Visible(errorDisplay)

\* C6: after a run that handled a non-2xx response whose JSON body has an
\* `error` field Y (any string, the empty one included), the error area is
\* visible with text exactly "Failed to generate report: Y" and the result
\* area is hidden.
C6_ServerErrorShown ==
    (EndedWithResponse /\ ~ResponseOk(event.status) /\ event.body.json
        /\ event.body.error # <<>>)
    => /\ Visible(errorDisplay)
       /\ errorText = "Failed to generate report: " \o event.body.error[1]
       /\ ~Visible(resultDisplay)

\* C7: after a run that handled a non-2xx response with status S whose body
\* is not JSON, the error area is visible with the text
\* "Failed to generate report: HTTP error! Status: S" and the result area is
\* hidden.
C7_StatusShown ==
    (EndedWithResponse /\ ~ResponseOk(event.status) /\ ~event.body.json)
    => /\ Visible(errorDisplay)
       /\ errorText = "Failed to generate report: HTTP error! Status: "
                        \o ToString(event.status)
       /\ ~Visible(resultDisplay)

\* C8: after a run that handled a 2xx response whose JSON body has neither a
\* `report` nor an `error` field, the error area is visible with the text
\* "Failed to generate report: Received an unexpected response from the
\* server." and the result area is hidden.
C8_UnexpectedShown ==
    (EndedWithResponse /\ ResponseOk(event.status) /\ event.body.json
        /\ event.body.report = <<>> /\ event.body.error = <<>>)
    => /\ Visible(errorDisplay)
       /\ errorText = "Failed to generate report: "
                        \o "Received an unexpected response from the server."
       /\ ~Visible(resultDisplay)

\* The messages an error text can be built from using the response (or the
\* exception) in `event` alone.
MessagesOfEvent ==
    {event.err, UnexpectedMsg, HttpErrorPrefix \o ToString(event.status)}
        \cup {event.body.error[k] : k \in DOMAIN event.body.error}

\* C9: when a submission issued after every earlier one had fully resolved
\* ends with no other submission issued meanwhile, only its outcome is
\* displayed: the region of the other kind is hidden and empty, and the text
\* shown comes from its own response.
C9_OnlyLatestShown ==
    (Ended /\ event.solo /\ nDone >= 2)
    => \/ /\ Visible(resultDisplay)
          /\ event.body.report # <<>>
          /\ reportText = event.body.report[1]
          /\ ~Visible(errorDisplay)
          /\ errorText = ""
       \/ /\ Visible(errorDisplay)
          /\ errorText \in {FailedPrefix \o m : m \in MessagesOfEvent}
          /\ ~Visible(resultDisplay)
          /\ reportText = ""

\* Two submissions in sequence, the first a success and the second a failure.
C9_Witness ==
    /\ Ended
    /\ event.solo
    /\ nDone = 2
    /\ event.prevKind = "result"
    /\ lastKind = "error"
    /\ Visible(errorDisplay)

\* C10: each submit event issues exactly one POST to /generate_report, whose
\* JSON body has exactly the keys `findings` and `template` with the values
\* the two fields held when the event was handled; no other step issues one.
C10_OnePostPerSubmit ==
    /\ nPosts = nSubmits
    /\ event.type = "submit" =>
          /\ Len(event.posts) = 1
          /\ event.posts[1].url = "/generate_report"
          /\ event.posts[1].method = "POST"
          /\ DOMAIN event.posts[1].body = {"findings", "template"}
          /\ event.posts[1].body.findings = findings
          /\ event.posts[1].body.template = template
    /\ Ended => event.posts = <<>>

\* A second submit, after the fields were edited, with an empty template.
C10_Witness ==
    /\ event.type = "submit"
    /\ nSubmits = 2
    /\ event.posts[1].body = [findings |-> "F", template |-> ""]

Last(seq) == seq[Len(seq)]

C12_SecondCopyResetsTimer ==
    (timers # <<>> /\ Last(timers) > 0) => copyLabel = CopiedLabel

\* C12 (amended): a successful copy made while an earlier copy's restore
\* timer is pending leaves that timer as it is and schedules one more; the
\* earlier timer, when it fires, restores the label although the later copy's
\* 2000 time units have not passed.
C12_EachCopyOwnTimer ==
    /\ event.type = "copied" =>
          /\ timers = Append(event.timersBefore, CopyDelay)
          /\ copyLabel = CopiedLabel
    /\ event.type = "restore" => copyLabel = OriginalLabel

\* The first copy's timer has restored the label while the second copy's
\* timer still has time to run.
C12_Witness ==
    /\ event.type = "restore"
    /\ copyLabel = OriginalLabel
    /\ timers # <<>>
    /\ Last(timers) > 0

\* C13: once every pending restore timer has fired, the copy control's label
\* is "Copy Report to Clipboard"; it stays so until the next successful copy;
\* and it is never left at "Copied!" forever.
C13_LabelEndsCorrect ==
    /\ [](timers = <<>> => copyLabel = "Copy Report to Clipboard")
    /\ [][(copyLabel = "Copy Report to Clipboard" /\ copyLabel' # copyLabel)
            => event'.type = "copied"]_vars
    /\ (copyLabel = "Copied!") ~> (copyLabel = "Copy Report to Clipboard")

\* Two copy clicks have been handled and every restore timer has fired.
C13_Witness ==
    /\ nCopies = 2
    /\ clipWrites = <<>>
    /\ timers = <<>>
    /\ event.type = "restore"
    /\ copyLabel = OriginalLabel

\* The error text starts with "Failed to generate report: ".
HasFailedPrefix(text) ==
    \E m \in NetworkErrors \cup SyntaxErrors
              \cup {UnexpectedMsg, ""}
              \cup {HttpErrorPrefix \o ToString(st) : st \in Statuses}
              \cup UNION {{e[k] : k \in 1..Len(e)} : e \in ErrorFields} :
        text = "Failed to generate report: " \o m

\* C14: every run of the handler that ends, whatever the outcome of its
\* request, leaves exactly one of the two renderings: the result area visible
\* and the error area hidden, or the error area visible with a text that
\* starts with "Failed to generate report: " and the result area hidden.
C14_ExactlyOneRendering ==
    Ended =>
        \/ Visible(resultDisplay) /\ ~Visible(errorDisplay)
        \/ Visible(errorDisplay) /\ HasFailedPrefix(errorText) /\ ~Visible(resultDisplay)

C17_LatestSubmissionWins ==
    /\ Ended => event.id = nSubmits
    /\ (InFlight = {} /\ nDone >= 1) =>
          /\ Visible(resultDisplay) # Visible(errorDisplay)
          /\ Visible(resultDisplay) = (lastKind = "result")

\* C18: the loading indicator is visible exactly when the submit control is
\* disabled.
C18_LoadingIffDisabled == Visible(loadingDisplay) <=> disabled

\* Two runs overlapped: the first has ended, the second is pending, and the
\* indicator and the flag are both off; and a state where both are on.
C18_Witness ==
    /\ nSubmits = 2
    /\ nDone = 1
    /\ InFlight # {}
    /\ ~Visible(loadingDisplay)
    /\ ~disabled

\* C19: once a submit event has been handled, the result area is visible only
\* if the report text is not empty, and the error area is visible only if the
\* error text starts with "Failed to generate report: ".
C19_VisibleHasContent ==
    nSubmits >= 1 =>
        /\ Visible(resultDisplay) => reportText # ""
        /\ Visible(errorDisplay) => HasFailedPrefix(errorText)

====
